---- MODULE Spec2Model ----
(***************************************************************************)
(* ToDo API (src/main.py): a FastAPI router over a flat task collection    *)
(* that is read in full and rewritten in full by every handler.            *)
(*                                                                         *)
(* Two specifications share the state:                                     *)
(*   Spec      every handler runs to completion before the next starts     *)
(*             (one action per handler, read + scan + write included);     *)
(*   SpecConc  handlers of concurrent requests interleave at the two       *)
(*             storage calls: one step up to and including read_tasks(),   *)
(*             one step from there through write_tasks() to the return.    *)
(***************************************************************************)
EXTENDS Integers, Sequences, FiniteSets, TLC

\* ---------------------------------------------------------------- bounds
MaxId    == 3      \* Create is cut off once next_id would exceed this
MaxLen   == 3      \* Create is cut off once the collection holds this many
NProcs   == 2      \* request slots that may be in flight at once (SpecConc)
MaxReqs  == 4      \* requests started in one behaviour of SpecConc

\* ---------------------------------------------------------------- inputs
\* Request bodies of POST /tasks (models.TaskCreate).
TaskCreate ==
    { [title |-> "A", description |-> "",  priority |-> 1],
      [title |-> "B", description |-> "x", priority |-> 2] }

\* Path parameter task_id: every id a task can carry under the bound.
TaskIds == 1 .. MaxId

\* Readings of datetime.now(timezone.utc).isoformat(): two opaque instants,
\* either of which any Create may read, whatever other Creates read and in
\* whatever order the writes land (line 61 runs before and independently
\* of write_tasks, so racing Creates may read equal instants, and the later
\* write may carry the earlier one).
Times == {1, 2}

\* SpecConc keeps the request data small, its claims being about ids and
\* status: one request body.
OneTaskCreate == { CHOOSE task_in \in TaskCreate : task_in.priority = 1 }

Procs == 1 .. NProcs

VARIABLES
    store,        \* the persisted collection (what storage holds)
    last,         \* Spec: the call that ran last and its response
    deleted,      \* Spec: ids removed by a successful Delete so far
    onlyCreates,  \* Spec: TRUE while nothing but Create has been called
    proc,         \* SpecConc: per request slot, position and locals
    nwrites,      \* SpecConc: write_tasks() calls performed so far
    nreqs         \* SpecConc: requests started so far

vars == <<store, last, deleted, onlyCreates, proc, nwrites, nreqs>>

\* ------------------------------------------------------------- responses
OK       == 200
NotFound == 404

Response(code, msg, body) == [code |-> code, msg |-> msg, body |-> body]

\* raise HTTPException(status_code=404, detail="Tarea no encontrada")
HTTPException == Response(NotFound, "Tarea no encontrada", <<>>)

NoResponse == Response(0, "", <<>>)

\* --------------------------------------------------------------- storage
\* storage.read_tasks(): the whole persisted collection, in order.
read_tasks == store

\* storage.write_tasks(tasks): the given sequence replaces the collection.
write_tasks(tasks) == tasks

\* ------------------------------------------------------- handler helpers
Ids(tasks) == { tasks[i].id : i \in 1 .. Len(tasks) }

\* max(t["id"] for t in tasks)
MaxIdOf(tasks) == CHOOSE m \in Ids(tasks) : \A k \in Ids(tasks) : k <= m

next_id_len(tasks) == Len(tasks) + 1

next_id_first(tasks) == IF tasks = <<>> THEN 1 ELSE tasks[1].id + 1

\* lines 50-54
next_id(tasks) == IF tasks = <<>> THEN 1 ELSE MaxIdOf(tasks) + 1

\* lines 55-62
new_task(tasks, task_in, now) ==
    [ id          |-> next_id(tasks),
      title       |-> task_in.title,
      description |-> task_in.description,
      status      |-> "pendiente",
      priority    |-> task_in.priority,
      created_at  |-> now ]

find_last(tasks, task_id) ==
    IF \E i \in 1 .. Len(tasks) : tasks[i].id = task_id
    THEN CHOOSE i \in 1 .. Len(tasks) :
             /\ tasks[i].id = task_id
             /\ \A j \in 1 .. (i - 1) : tasks[j].id # task_id
    ELSE Len(tasks)

\* "for task in tasks: if task["id"] == task_id": position of the first
\* match, 0 when the loop falls through.
find(tasks, task_id) ==
    IF \E i \in 1 .. Len(tasks) : tasks[i].id = task_id
    THEN CHOOSE i \in 1 .. Len(tasks) :
             /\ tasks[i].id = task_id
             /\ \A j \in 1 .. (i - 1) : tasks[j].id # task_id
    ELSE 0

mark_toggle(tasks, i) ==
    [tasks EXCEPT ![i].status =
        IF @ = "pendiente" THEN "completada" ELSE "pendiente"]

mark_all(tasks, i) ==
    [ j \in 1 .. Len(tasks) |-> [tasks[j] EXCEPT !.status = "completada"] ]

\* task["status"] = "completada" on the i-th element of the loaded list
mark(tasks, i) == [tasks EXCEPT ![i].status = "completada"]

filter_upto(tasks, task_id) ==
    SelectSeq(tasks, LAMBDA task : task.id < task_id)

\* [task for task in tasks if task["id"] != task_id]
filter(tasks, task_id) ==
    SelectSeq(tasks, LAMBDA task : task.id # task_id)

\* ------------------------------------------------------------------ Init
IdleProc ==
    [ pc |-> "idle", op |-> "none", task_id |-> 0,
      task_in |-> [title |-> "", description |-> "", priority |-> 0],
      tasks |-> <<>>, resp |-> NoResponse, rd |-> 0, wr |-> 0 ]

Init ==
    /\ store = <<>>
    /\ last = [op |-> "none", task_id |-> 0, resp |-> NoResponse]
    /\ deleted = {}
    /\ onlyCreates = TRUE
    /\ proc = [p \in Procs |-> IdleProc]
    /\ nwrites = 0
    /\ nreqs = 0

ConcVars == <<proc, nwrites, nreqs>>
SeqVars  == <<last, deleted, onlyCreates>>

\* ----------------------------------------------- Spec: whole handlers
Called(op, task_id, resp) ==
    last' = [op |-> op, task_id |-> task_id, resp |-> resp]

\* GET /
root ==
    /\ Called("root", 0, Response(OK, "API funcionando!", <<>>))
    /\ onlyCreates' = FALSE
    /\ UNCHANGED <<store, deleted, ConcVars>>

\* GET /tasks
get_tasks ==
    /\ Called("get_tasks", 0, Response(OK, "", read_tasks))
    /\ onlyCreates' = FALSE
    /\ UNCHANGED <<store, deleted, ConcVars>>

\* POST /tasks
create_task(task_in, now) ==
    LET tasks == read_tasks
        task  == new_task(tasks, task_in, now)
    IN  /\ task.id <= MaxId
        /\ Len(tasks) < MaxLen
        /\ store' = write_tasks(Append(tasks, task))
        /\ Called("create_task", 0, Response(OK, "", <<task>>))
        /\ UNCHANGED <<deleted, onlyCreates, ConcVars>>

\* GET /tasks/{task_id}
get_task(task_id) ==
    LET tasks == read_tasks
        i     == find(tasks, task_id)
    IN  /\ Called("get_task", task_id,
                  IF i # 0 THEN Response(OK, "", <<tasks[i]>>)
                           ELSE HTTPException)
        /\ onlyCreates' = FALSE
        /\ UNCHANGED <<store, deleted, ConcVars>>

\* PUT /tasks/{task_id}
complete_task(task_id) ==
    LET tasks == read_tasks
        i     == find(tasks, task_id)
    IN  /\ IF i # 0
           THEN /\ store' = write_tasks(mark(tasks, i))
                /\ Called("complete_task", task_id,
                          Response(OK, "", <<mark(tasks, i)[i]>>))
           ELSE /\ store' = store
                /\ Called("complete_task", task_id, HTTPException)
        /\ onlyCreates' = FALSE
        /\ UNCHANGED <<deleted, ConcVars>>

\* DELETE /tasks/{task_id}
delete_task(task_id) ==
    LET tasks     == read_tasks
        new_tasks == filter(tasks, task_id)
    IN  /\ IF Len(new_tasks) = Len(tasks)
           THEN /\ store' = store
                /\ deleted' = deleted
                /\ Called("delete_task", task_id, HTTPException)
           ELSE /\ store' = write_tasks(new_tasks)
                /\ deleted' = deleted \cup {task_id}
                /\ Called("delete_task", task_id,
                          Response(OK, "Tarea eliminada correctamente", <<>>))
        /\ onlyCreates' = FALSE
        /\ UNCHANGED ConcVars

Next ==
    \/ root
    \/ get_tasks
    \/ \E task_in \in TaskCreate, now \in Times : create_task(task_in, now)
    \/ \E task_id \in TaskIds : get_task(task_id)
    \/ \E task_id \in TaskIds : complete_task(task_id)
    \/ \E task_id \in TaskIds : delete_task(task_id)

Spec == Init /\ [][Next]_vars

\* ------------------------------- SpecConc: handlers split at the storage
\* A slot is free before its first request and after a response.
Free(p) == proc[p].pc \in {"idle", "done"}

\* Slots are interchangeable: a new request takes the lowest free one.
FirstFree(p) == Free(p) /\ \A q \in Procs : q < p => ~ Free(q)

\* The handler's first statement, tasks = read_tasks(), for a new request.
Begin(p, op, task_id, task_in) ==
    /\ FirstFree(p)
    /\ nreqs < MaxReqs
    /\ nreqs' = nreqs + 1
    /\ proc' = [proc EXCEPT ![p] =
                   [ pc |-> "read", op |-> op, task_id |-> task_id,
                     task_in |-> task_in, tasks |-> read_tasks,
                     resp |-> NoResponse, rd |-> nwrites, wr |-> 0 ]]
    /\ UNCHANGED <<store, nwrites, SeqVars>>

\* The handler returns (or raises) without having written.
Return(p, resp) ==
    /\ proc' = [proc EXCEPT ![p].pc = "done", ![p].resp = resp]
    /\ UNCHANGED <<store, nwrites, nreqs, SeqVars>>

\* The handler calls write_tasks(tasks) and returns.
WriteReturn(p, tasks, resp) ==
    /\ store' = write_tasks(tasks)
    /\ nwrites' = nwrites + 1
    /\ proc' = [proc EXCEPT ![p].pc = "done", ![p].resp = resp,
                            ![p].wr = nwrites + 1]
    /\ UNCHANGED <<nreqs, SeqVars>>

At(p, op) == proc[p].pc = "read" /\ proc[p].op = op

\* create_task, line 49
create_task_read(p, task_in) ==
    /\ Len(read_tasks) < MaxLen
    /\ next_id(read_tasks) <= MaxId
    /\ Begin(p, "create_task", 0, task_in)

create_task_write_reread(p, now) ==
    LET tasks == read_tasks
        task  == new_task(tasks, proc[p].task_in, now)
    IN  /\ At(p, "create_task")
        /\ task.id <= MaxId
        /\ WriteReturn(p, Append(tasks, task), Response(OK, "", <<task>>))

create_task_write_append(p, now) ==
    LET tasks == proc[p].tasks
        task  == new_task(tasks, proc[p].task_in, now)
    IN  /\ At(p, "create_task")
        /\ WriteReturn(p, Append(read_tasks, task), Response(OK, "", <<task>>))

\* create_task, lines 50-65
create_task_write(p, now) ==
    LET tasks == proc[p].tasks
        task  == new_task(tasks, proc[p].task_in, now)
    IN  /\ At(p, "create_task")
        /\ WriteReturn(p, Append(tasks, task), Response(OK, "", <<task>>))

\* complete_task, line 110
complete_task_read(p, task_id) ==
    Begin(p, "complete_task", task_id, IdleProc.task_in)

\* complete_task, lines 112-118
complete_task_write(p) ==
    LET tasks == proc[p].tasks
        i     == find(tasks, proc[p].task_id)
    IN  /\ At(p, "complete_task")
        /\ IF i # 0
           THEN WriteReturn(p, mark(tasks, i),
                            Response(OK, "", <<mark(tasks, i)[i]>>))
           ELSE Return(p, HTTPException)

\* delete_task, line 135
delete_task_read(p, task_id) ==
    Begin(p, "delete_task", task_id, IdleProc.task_in)

delete_task_write_reread(p) ==
    LET tasks     == read_tasks
        new_tasks == filter(tasks, proc[p].task_id)
    IN  /\ At(p, "delete_task")
        /\ IF Len(new_tasks) = Len(tasks)
           THEN Return(p, HTTPException)
           ELSE WriteReturn(p, new_tasks,
                    Response(OK, "Tarea eliminada correctamente", <<>>))

\* delete_task, lines 137-143
delete_task_write(p) ==
    LET tasks     == proc[p].tasks
        new_tasks == filter(tasks, proc[p].task_id)
    IN  /\ At(p, "delete_task")
        /\ IF Len(new_tasks) = Len(tasks)
           THEN Return(p, HTTPException)
           ELSE WriteReturn(p, new_tasks,
                    Response(OK, "Tarea eliminada correctamente", <<>>))

NextConc ==
    \/ \E p \in Procs, task_in \in OneTaskCreate : create_task_read(p, task_in)
    \/ \E p \in Procs, now \in Times : create_task_write(p, now)
    \/ \E p \in Procs, task_id \in TaskIds : complete_task_read(p, task_id)
    \/ \E p \in Procs : complete_task_write(p)
    \/ \E p \in Procs, task_id \in TaskIds : delete_task_read(p, task_id)
    \/ \E p \in Procs : delete_task_write(p)

SpecConc == Init /\ [][NextConc]_vars

\* ================================================================ claims
UniqueIds(tasks) ==
    \A i, j \in 1 .. Len(tasks) : tasks[i].id = tasks[j].id => i = j

\* The step just taken was a call of op (steps of Spec always set last).
Did(op) == last'.op = op

\* The task a Create / Get-by-id / Complete response carries.
Returned(l) == l.resp.body[1]

\* ---------------------------------------------------------------- C1
\* C1 as stated: once a task with id k has been deleted, no later Create
\* returns or stores a task with id k, so the collection never holds an id
\* that a successful Delete removed earlier.
C1_NeverReused == Ids(store) \cap deleted = {}

\* C1 amended: once a task with id k has been deleted, a later Create
\* returns and stores id k exactly when, at that Create, every id in the
\* collection is smaller than k and k-1 is in the collection (or k = 1 and
\* the collection is empty); so k is never reused while some task with
\* id >= k is present (gaps below the maximum are never filled), and the id
\* a Create returns is never one the collection already holds.
C1_ReusedExactlyAboveMax ==
    [][ Did("create_task") =>
          /\ Returned(last').id \notin Ids(store)
          /\ store'[Len(store')].id = Returned(last').id
          /\ \A k \in deleted :
                Returned(last').id = k <=>
                    /\ \A j \in Ids(store) : j < k
                    /\ k = 1 \/ (k - 1) \in Ids(store) ]_vars

\* After a Delete of an id below the maximum, a Create left the gap open.
C1_Witness ==
    /\ last.op = "create_task"
    /\ \E k \in deleted : k < Returned(last).id /\ k \notin Ids(store)

\* ---------------------------------------------------------------- C2
\* C2: from the empty collection, with nothing but Create calls, the n-th
\* Create returns id n and the collection holds the ids 1..n in call order.
C2_SequentialIds ==
    onlyCreates =>
        /\ \A i \in 1 .. Len(store) : store[i].id = i
        /\ last.op = "create_task" =>
              /\ last.resp.code = OK
              /\ Returned(last).id = Len(store)
              /\ Returned(last) = store[Len(store)]

C2_Witness ==
    onlyCreates /\ Len(store) >= 3 /\ last.op = "create_task"

\* ---------------------------------------------------------------- C3
\* C3: when calls do not overlap, no two tasks of the persisted collection
\* share an id and every id is a positive integer.
C3_UniquePositiveIds ==
    /\ UniqueIds(store)
    /\ \A i \in 1 .. Len(store) : store[i].id \in Nat /\ store[i].id >= 1

\* Two tasks side by side, created after a deletion had happened.
C3_Witness ==
    /\ Len(store) >= 2
    /\ deleted # {}
    /\ last.op = "create_task"

\* ---------------------------------------------------------------- C4
\* C4: Complete on a present id sets that task's status to completada,
\* returns the updated task, and leaves the task's other fields, every other
\* task, the number of tasks and their order unchanged.
C4_CompleteFrame ==
    [][ (Did("complete_task") /\ last'.task_id \in Ids(store)) =>
          \E i \in 1 .. Len(store) :
             /\ store[i].id = last'.task_id
             /\ Len(store') = Len(store)
             /\ \A j \in 1 .. Len(store) : j # i => store'[j] = store[j]
             /\ store'[i].status = "completada"
             /\ store'[i].id = store[i].id
             /\ store'[i].title = store[i].title
             /\ store'[i].description = store[i].description
             /\ store'[i].priority = store[i].priority
             /\ store'[i].created_at = store[i].created_at
             /\ last'.resp.code = OK
             /\ last'.resp.body = << store'[i] >> ]_vars

\* A Complete succeeded while another task stayed pendiente.
C4_Witness ==
    /\ last.op = "complete_task"
    /\ last.resp.code = OK
    /\ \E i, j \in 1 .. Len(store) :
          /\ store[i].id = last.task_id /\ store[i].status = "completada"
          /\ j # i /\ store[j].status = "pendiente"

\* ---------------------------------------------------------------- C5
\* C5: after a successful Delete(task_id) no task with that id is listed,
\* every other task is still present, unchanged and in the same relative
\* order, and a following Get-by-id(task_id) yields NotFound.
C5_DeleteFrame ==
    /\ [][ (Did("delete_task") /\ last'.resp.code = OK) =>
             /\ last'.task_id \notin Ids(store')
             /\ \E i \in 1 .. Len(store) :
                   /\ store[i].id = last'.task_id
                   /\ store' = [ j \in 1 .. (Len(store) - 1) |->
                                   IF j < i THEN store[j] ELSE store[j + 1] ]
          ]_vars
    /\ [][ (last.op = "delete_task" /\ last.resp.code = OK) =>
             /\ Did("get_tasks") =>
                   /\ last'.resp.body = store
                   /\ last.task_id \notin Ids(last'.resp.body)
             /\ (Did("get_task") /\ last'.task_id = last.task_id) =>
                   last'.resp = HTTPException ]_vars

\* A Get-by-id of a deleted id answered 404 while two other tasks remain.
C5_Witness ==
    /\ last.op = "get_task"
    /\ last.task_id \in deleted
    /\ last.resp.code = NotFound
    /\ Len(store) >= 2

\* ---------------------------------------------------------------- C6
\* C6: for a task_id not in the collection, Get-by-id, Complete and Delete
\* each fail with 404 "Tarea no encontrada" and leave the persisted
\* collection as it was.
C6_NotFoundNoWrite ==
    [][ ( /\ Did("get_task") \/ Did("complete_task") \/ Did("delete_task")
          /\ last'.task_id \notin Ids(store) ) =>
          /\ last'.resp.code = NotFound
          /\ last'.resp.msg = "Tarea no encontrada"
          /\ last'.resp = HTTPException
          /\ store' = store ]_vars

\* A Complete of an absent id failed on a collection with a pending task.
C6_Witness ==
    /\ last.op = "complete_task"
    /\ last.resp = HTTPException
    /\ last.task_id \notin Ids(store)
    /\ \E i \in 1 .. Len(store) : store[i].status = "pendiente"

\* ---------------------------------------------------------------- C7
\* C7: Create stores status pendiente; a status is always pendiente or
\* completada; a task that is completada stays completada under every later
\* call for as long as it exists.
C7_StatusOneWay ==
    /\ [](\A i \in 1 .. Len(store) :
              store[i].status \in {"pendiente", "completada"})
    /\ [][ /\ Did("create_task") =>
                /\ store'[Len(store')].status = "pendiente"
                /\ Returned(last').status = "pendiente"
           /\ \A i \in 1 .. Len(store), j \in 1 .. Len(store') :
                (store[i].id = store'[j].id /\ store[i].status = "completada")
                    => store'[j].status = "completada" ]_vars

\* A task is completada after a Complete of another id ran later.
C7_Witness ==
    /\ last.op = "complete_task"
    /\ last.resp.code = OK
    /\ \E i \in 1 .. Len(store) :
          /\ store[i].id < last.task_id
          /\ store[i].status = "completada"
    /\ deleted # {}

\* ------------------------------------------------ SpecConc: vocabulary
\* Request slot p holds a finished call of op that answered 200.
Done(p, op) ==
    /\ proc[p].pc = "done"
    /\ proc[p].op = op
    /\ proc[p].resp.code = OK

\* p and q loaded the same persisted collection: no write_tasks() ran
\* between their read_tasks() calls, so both read before either wrote.
SameRead(p, q) ==
    /\ p # q
    /\ proc[p].rd = proc[q].rd
    /\ proc[p].wr > 0
    /\ proc[q].wr > 0

Pending(tasks, task_id) ==
    \E i \in 1 .. Len(tasks) :
        tasks[i].id = task_id /\ tasks[i].status = "pendiente"

\* ---------------------------------------------------------------- C8
\* C8: two Create calls that both ran read_tasks before either ran
\* write_tasks computed the same next_id from the same maximum, and both
\* returned a created task carrying that id.
C8_RacingCreatesSameId ==
    \A p, q \in Procs :
        (Done(p, "create_task") /\ Done(q, "create_task") /\ SameRead(p, q))
            => /\ proc[p].resp.body[1].id = proc[q].resp.body[1].id
               /\ proc[p].resp.body[1].id = next_id(proc[q].tasks)

\* Two overlapping Creates have both answered, on a non-empty snapshot.
C8_Witness ==
    \E p, q \in Procs :
        /\ Done(p, "create_task") /\ Done(q, "create_task")
        /\ SameRead(p, q)
        /\ proc[p].tasks # <<>>
        /\ proc[p].resp.body[1].id = proc[q].resp.body[1].id

\* ---------------------------------------------------------------- C9
\* C9: when two successful mutating calls on different ids (Complete or
\* Delete) loaded the same collection before either wrote, the collection
\* persisted by the second write shows only the second writer's change: the
\* first writer's task, pendiente when read, is still pendiente if that
\* call was a Complete, and is still present if that call was a Delete.
C9_LostUpdate ==
    \A p, q \in Procs :
        ( /\ \E op \in {"complete_task", "delete_task"} : Done(p, op)
          /\ \E op \in {"complete_task", "delete_task"} : Done(q, op)
          /\ SameRead(p, q)
          /\ proc[p].task_id # proc[q].task_id
          /\ proc[p].wr < proc[q].wr
          /\ proc[q].wr = nwrites )
        => /\ proc[p].op = "complete_task" =>
                (Pending(proc[p].tasks, proc[p].task_id)
                    => Pending(store, proc[p].task_id))
           /\ proc[p].op = "delete_task" =>
                proc[p].task_id \in Ids(store)
           /\ proc[q].op = "complete_task" =>
                ~ Pending(store, proc[q].task_id)
           /\ proc[q].op = "delete_task" =>
                proc[q].task_id \notin Ids(store)

\* Complete(a) wrote first, Delete(b) second: b is gone, a is pendiente.
C9_Witness ==
    \E p, q \in Procs :
        /\ Done(p, "complete_task") /\ Done(q, "delete_task")
        /\ SameRead(p, q)
        /\ proc[p].task_id # proc[q].task_id
        /\ proc[p].wr < proc[q].wr
        /\ proc[q].wr = nwrites
        /\ Pending(store, proc[p].task_id)
        /\ proc[q].task_id \notin Ids(store)

\* --------------------------------------------------------------- C10
\* C10: under every interleaving of the read and write steps of concurrent
\* Create, Complete and Delete calls, the persisted collection never holds
\* two tasks with the same id; every loaded snapshot has unique ids too, so
\* each write stores such a snapshot plus at most one task with a larger id.
C10_StoreIdsUniqueUnderRaces ==
    /\ UniqueIds(store)
    /\ \A p \in Procs :
          /\ UniqueIds(proc[p].tasks)
          /\ proc[p].pc = "read" /\ proc[p].tasks # <<>> =>
                next_id(proc[p].tasks) > MaxIdOf(proc[p].tasks)

\* Two racing Creates returned the same id; the later write replaced the
\* earlier creator's task instead of storing a second task with that id.
C10_Witness ==
    \E p, q \in Procs :
        /\ Done(p, "create_task") /\ Done(q, "create_task")
        /\ SameRead(p, q)
        /\ proc[p].wr < proc[q].wr
        /\ proc[q].wr = nwrites
        /\ proc[p].resp.body[1] # proc[q].resp.body[1]
        /\ store = Append(proc[q].tasks, proc[q].resp.body[1])
        /\ \A i \in 1 .. Len(store) : store[i] # proc[p].resp.body[1]

====
